---- MODULE Spec2Model ----
(***************************************************************************)
(* Model of packages/rich-text/src/register-format-type.js:                *)
(* registerFormatType validates a format type descriptor, stores it in the *)
(* core/rich-text registry and, when the descriptor carries the            *)
(* __experimentalCreatePrepareEditableTree hook, installs a component      *)
(* wrapper into the 'experimentalRichText' filter pipeline.  The wrapper   *)
(* builds the prepareEditableTree / onChangeEditableValue function stacks  *)
(* with a memoized array-append.                                           *)
(***************************************************************************)
EXTENDS Integers, Sequences, FiniteSets, TLC

VARIABLES
    formatTypes,  \* the core/rich-text registry: descriptor name -> descriptor
    filters,      \* the 'experimentalRichText' pipeline, in installation order
    heap,         \* the arrays allocated by the stack builders; a reference is an index
    cache,        \* cache[i]: the memize cache of the builder closed over by filters[i]
    calls,        \* every call made to a stack builder so far (history)
    succeeded,    \* the successful registerFormatType calls, in order (history)
    last          \* the call that has just returned to its caller, or NoCall

vars == <<formatTypes, filters, heap, cache, calls, succeeded, last>>

----------------------------------------------------------------------------
(* JavaScript values.  A string is a sequence of one-character strings.    *)

Str(s) == [t |-> "string", s |-> s, n |-> 0]
Num(k) == [t |-> "number", s |-> <<>>, n |-> k]
Arr(k) == [t |-> "array", s |-> <<>>, n |-> k]       \* an array of k entries
Null == [t |-> "null", s |-> <<>>, n |-> 0]
Undefined == [t |-> "undefined", s |-> <<>>, n |-> 0]
Absent == [t |-> "absent", s |-> <<>>, n |-> 0]      \* the key is not in the object
Threw == [t |-> "TypeError", s |-> <<>>, n |-> 0]    \* the call ended by a throw

\* obj.key
Get(v) == IF v = Absent THEN Undefined ELSE v

\* 'key' in obj
In(v) == v # Absent

\* typeof obj.key
TypeOf(v) ==
    CASE v.t = "string" -> "string"
      [] v.t = "number" -> "number"
      [] v.t \in {"null", "array"} -> "object"
      [] OTHER -> "undefined"

\* the decimal digits of a natural number
RECURSIVE Digits(_)
Digits(k) ==
    LET d == <<"0", "1", "2", "3", "4", "5", "6", "7", "8", "9">>[(k % 10) + 1]
    IN  IF k < 10 THEN <<d>> ELSE Digits(k \div 10) \o <<d>>

\* String( v ), the coercion RegExp.prototype.test applies to its argument
StringOf(v) ==
    CASE v.t = "string" -> v.s
      [] v.t = "null" -> <<"n", "u", "l", "l">>
      [] v.t = "number" -> Digits(v.n)
      [] OTHER -> <<"u", "n", "d", "e", "f", "i", "n", "e", "d">>

Lower == {"a", "b", "c", "d", "e", "f", "g", "h", "i", "j", "k", "l", "m",
          "n", "o", "p", "q", "r", "s", "t", "u", "v", "w", "x", "y", "z"}
Upper == {"A", "B", "C", "D", "E", "F", "G", "H", "I", "J", "K", "L", "M",
          "N", "O", "P", "Q", "R", "S", "T", "U", "V", "W", "X", "Y", "Z"}
Digit == {"0", "1", "2", "3", "4", "5", "6", "7", "8", "9"}

\* [a-z0-9-]
SlugChar == Lower \cup Digit \cup {"-"}

\* ^[a-z][a-z0-9-]*$
Slug(w) ==
    /\ Len(w) >= 1
    /\ w[1] \in Lower
    /\ \A i \in 2..Len(w) : w[i] \in SlugChar

\* /^[a-z][a-z0-9-]*\/[a-z][a-z0-9-]*$/.test( s )
NameRegExp(s) ==
    \E k \in 1..Len(s) :
        /\ s[k] = "/"
        /\ Slug(SubSeq(s, 1, k - 1))
        /\ Slug(SubSeq(s, k + 1, Len(s)))

\* [_a-zA-Z]
ClassFirstChar == {"_"} \cup Lower \cup Upper

\* [a-zA-Z0-9-]
ClassRestChar == Lower \cup Upper \cup Digit \cup {"-"}

\* /^[_a-zA-Z]+[a-zA-Z0-9-]*$/.test( s )
ClassRegExp(s) ==
    \E k \in 1..Len(s) :
        /\ \A i \in 1..k : s[i] \in ClassFirstChar
        /\ \A i \in (k + 1)..Len(s) : s[i] \in ClassRestChar

----------------------------------------------------------------------------
(* The core/rich-text store.                                               *)

NoFormat == [t |-> "undefined", s |-> <<>>, n |-> 0, none |-> TRUE]

\* select( 'core/rich-text' ).getFormatType( name )
getFormatType(reg, name) ==
    IF name.s \in DOMAIN reg THEN reg[name.s] ELSE NoFormat

\* select( 'core/rich-text' ).getFormatTypeForBareElement( tagName )
getFormatTypeForBareElement(reg, tagName) ==
    LET found == {k \in DOMAIN reg : reg[k].className = Null /\ reg[k].tagName = tagName}
    IN  IF found = {} THEN NoFormat ELSE reg[CHOOSE k \in found : TRUE]

\* select( 'core/rich-text' ).getFormatTypeForClassName( className )
getFormatTypeForClassName(reg, className) ==
    LET found == {k \in DOMAIN reg : reg[k].className # Null /\ reg[k].className = className}
    IN  IF found = {} THEN NoFormat ELSE reg[CHOOSE k \in found : TRUE]

\* dispatch( 'core/rich-text' ).addFormatTypes( settings )
addFormatTypes(reg, d) ==
    [k \in DOMAIN reg \cup {d.name.s} |-> IF k = d.name.s THEN d ELSE reg[k]]

----------------------------------------------------------------------------
(* registerFormatType                                                      *)

\* settings = { name, ...settings }
Merge(name, settings) ==
    [settings EXCEPT !.name = IF In(settings.name) THEN settings.name ELSE name]

\* the className checked at line 96 fails the pattern
ClassNamePatternFails(d) == ~ClassRegExp(StringOf(Get(d.className)))

\* faulty variant: the class name branch (lines 113-123) is left out
HandlerConflictBareOnly(d, reg) ==
    IF Get(d.className) = Null
    THEN getFormatTypeForBareElement(reg, Get(d.tagName)) # NoFormat
    ELSE FALSE

\* lines 103-123: the bare tag name or the class name is already handled
HandlerConflict(d, reg) ==
    IF Get(d.className) = Null
    THEN getFormatTypeForBareElement(reg, Get(d.tagName)) # NoFormat
    ELSE getFormatTypeForClassName(reg, Get(d.className)) # NoFormat

\* settings.keywords.length > 3; evaluating it on null or undefined throws
KeywordsLengthThrows(d) == Get(d.keywords).t \in {"null", "undefined"}

MaxKeywords == 3

KeywordsTooMany(d) ==
    /\ Get(d.keywords).t \in {"array", "string"}
    /\ (IF Get(d.keywords).t = "array" THEN Get(d.keywords).n ELSE Len(Get(d.keywords).s))
           > MaxKeywords

\* faulty variant: the title type check moved before the keywords check
TitleKeywordsOutcomeSwapped(d) ==
    IF ~In(d.title) \/ Get(d.title) = Str(<<>>) THEN "must-have-title"
    ELSE IF TypeOf(d.title) # "string" THEN "titles-must-be-strings"
    ELSE IF In(d.keywords) /\ KeywordsLengthThrows(d) THEN "throw"
    ELSE IF In(d.keywords) /\ KeywordsTooMany(d) THEN "max-keywords"
    ELSE "ok"

\* lines 125-144: the title and keywords checks, in the order of the code
TitleKeywordsOutcome(d) ==
    IF ~In(d.title) \/ Get(d.title) = Str(<<>>) THEN "must-have-title"
    ELSE IF In(d.keywords) /\ KeywordsLengthThrows(d) THEN "throw"
    ELSE IF In(d.keywords) /\ KeywordsTooMany(d) THEN "max-keywords"
    ELSE IF TypeOf(d.title) # "string" THEN "titles-must-be-strings"
    ELSE "ok"

\* The validation sequence, lines 55-144: the diagnostic of the first check
\* that fails, "throw" when evaluating a check throws, "ok" when all pass.
Outcome(d, reg) ==
    IF TypeOf(d.name) # "string" THEN "names-must-be-strings"
    ELSE IF ~NameRegExp(d.name.s) THEN "name-pattern"
    ELSE IF getFormatType(reg, d.name) # NoFormat THEN "already-registered"
    ELSE IF TypeOf(d.tagName) # "string" \/ Get(d.tagName) = Str(<<>>) THEN "tag-name"
    ELSE IF (TypeOf(d.className) # "string" \/ Get(d.className) = Str(<<>>))
            /\ Get(d.className) # Null THEN "class-name-type"
    ELSE IF ClassNamePatternFails(d) THEN "class-name-pattern"
    ELSE IF HandlerConflict(d, reg) THEN
            (IF Get(d.className) = Null THEN "bare-tag-handled" ELSE "class-name-handled")
    ELSE TitleKeywordsOutcome(d)

\* faulty variant: the dispatch moved before the title type check
ReachesDispatchEarly(d, reg) == Outcome(d, reg) \in {"ok", "titles-must-be-strings"}

\* line 146 is reached: no earlier check returned or threw
ReachesDispatch(d, reg) == Outcome(d, reg) = "ok"

\* line 155: the wrapper is installed
InstallsFilter(d) == d.prepare

NoCall == [op |-> "none"]

registerFormatType(name, settings) ==
    LET d == Merge(name, settings)
        o == Outcome(d, formatTypes)
        stored == ReachesDispatch(d, formatTypes)
        wrapped == stored /\ InstallsFilter(d)
    IN  /\ formatTypes' = IF stored THEN addFormatTypes(formatTypes, d) ELSE formatTypes
        /\ filters' = IF wrapped THEN Append(filters, [key |-> name, fmt |-> d]) ELSE filters
        /\ cache' = IF wrapped THEN Append(cache, {}) ELSE cache
        /\ last' = [op |-> "register", name |-> name, settings |-> settings,
                    ret |-> CASE o = "ok" -> d [] o = "throw" -> Threw [] OTHER -> Undefined,
                    log |-> IF o \in {"ok", "throw"} THEN <<>> ELSE <<o>>]
        /\ succeeded' = IF stored THEN Append(succeeded, [name |-> name, d |-> d]) ELSE succeeded
        /\ UNCHANGED <<heap, calls>>

\* the caller goes on after the call
Continue ==
    /\ last # NoCall
    /\ last' = NoCall
    /\ UNCHANGED <<formatTypes, filters, heap, cache, calls, succeeded>>

----------------------------------------------------------------------------
(* The wrapper installed by addFilter, rendered.                           *)

NoFn == "none"

\* the elements of the array a reference denotes; 0 is undefined, for which
\* the default parameter previousStack = EMPTY_ARRAY applies
Contents(h, ref) == IF ref = 0 THEN <<>> ELSE h[ref]

\* faulty variant: [ newFunction, ...previousStack ]
NewStackPrepended(previousStack, newFunction) == <<newFunction>> \o previousStack

\* [ ...previousStack, newFunction ]
NewStack(previousStack, newFunction) == Append(previousStack, newFunction)

\* faulty variant: the cache is never consulted
MemoHitNever(entries, prev, fn) == {}

\* memize: the cached results for these very arguments (compared with ===)
MemoHit(entries, prev, fn) == {e \in entries : e.prev = prev /\ e.fn = fn}

\* getFunctionStackMemoized( prev, fn ) of the builder of filters[i]
getFunctionStackMemoized(st, i, prev, fn) ==
    LET hit == MemoHit(st.cache[i], prev, fn)
        res == IF hit # {} THEN (CHOOSE e \in hit : TRUE).res ELSE Len(st.heap) + 1
        h == IF hit # {} THEN st.heap
             ELSE Append(st.heap, NewStack(Contents(st.heap, prev), fn))
    IN  [heap |-> h,
         cache |-> IF hit # {} THEN st.cache
                   ELSE [st.cache EXCEPT ![i] = @ \cup {[prev |-> prev, fn |-> fn, res |-> res]}],
         calls |-> st.calls \cup {[b |-> i, prev |-> prev, fn |-> fn, res |-> res,
                                   before |-> Contents(st.heap, prev)]},
         res |-> res]

\* Component of filters[i], lines 162-187: the props it hands to OriginalComponent
Component(st, i, fnP, fnC) ==
    LET a == getFunctionStackMemoized(st, i, st.pe, fnP)
        st1 == [heap |-> a.heap, cache |-> a.cache, calls |-> a.calls,
                pe |-> a.res, oc |-> st.oc]
        c == getFunctionStackMemoized(st1, i, st1.oc, fnC)
    IN  IF filters[i].fmt.change
        THEN [heap |-> c.heap, cache |-> c.cache, calls |-> c.calls,
              pe |-> st1.pe, oc |-> c.res]
        ELSE st1

\* The composed component is filters[n]( ... filters[1]( RichText ) ): the
\* wrapper installed last is outermost and renders first.
RECURSIVE RenderFrom(_, _, _, _)
RenderFrom(i, st, P, C) ==
    IF i = 0 THEN st ELSE RenderFrom(i - 1, Component(st, i, P[i], C[i]), P, C)

MaxHeap == 4
Funcs == {"f", "g"}

\* One render pass.  P[i] and C[i] are the functions the hooks of filters[i]
\* return in this pass.
Render(P, C) ==
    LET st == RenderFrom(Len(filters),
                         [heap |-> heap, cache |-> cache, calls |-> calls, pe |-> 0, oc |-> 0],
                         P, C)
    IN  /\ Len(st.heap) <= MaxHeap
        /\ heap' = st.heap
        /\ cache' = st.cache
        /\ calls' = st.calls
        /\ last' = [op |-> "render",
                    picks |-> [i \in 1..Len(filters) |->
                                  [p |-> P[i],
                                   c |-> IF filters[i].fmt.change THEN C[i] ELSE NoFn]],
                    prepareEditableTree |-> st.pe,
                    onChangeEditableValue |-> st.oc,
                    allocated |-> Len(st.heap) - Len(heap)]
        /\ UNCHANGED <<formatTypes, filters, succeeded>>

----------------------------------------------------------------------------
(* The calls the model makes.                                              *)

ab == <<"a", "/", "b">>
ac == <<"a", "/", "c">>

\* Arguments of registerFormatType under Spec.  registerFormatType itself
\* never reads the change-handler hook (only Component does), so the calls
\* of Spec leave it out; those of RenderSpec vary it.
NameInputs == {Str(ab), Str(ac), Str(<<"a", "b">>), Num(5)}

SettingsInputs ==
    [name : {Absent, Str(ac)},
     tagName : {Str(<<"b">>), Str(<<"i">>), Str(<<>>), Absent},
     className : {Null, Str(<<"a", "-", "1">>), Str(<<"1", "a", "b", "c">>), Str(<<>>), Absent},
     title : {Str(<<"T">>), Str(<<>>), Absent, Num(7)},
     keywords : {Absent, Null, Arr(3), Arr(4)},
     prepare : BOOLEAN,
     change : {FALSE}]

\* The calls are those that differ from a plain successful registration in
\* at most MaxDeviations arguments or settings.
DefaultName == Str(ab)

DefaultSettings ==
    [name |-> Absent, tagName |-> Str(<<"b">>), className |-> Null, title |-> Str(<<"T">>),
     keywords |-> Absent, prepare |-> TRUE, change |-> FALSE]

Deviations(name, settings) ==
    Cardinality({k \in DOMAIN settings : settings[k] # DefaultSettings[k]})
        + (IF name = DefaultName THEN 0 ELSE 1)

MaxDeviations == 2

\* Arguments of registerFormatType under RenderSpec.
RenderNames == {Str(ab), Str(ac)}

RenderSettings ==
    [name : {Absent, Str(ac)},
     tagName : {Str(<<"b">>)},
     className : {Null, Str(<<"a", "-", "1">>)},
     title : {Str(<<"T">>)},
     keywords : {Absent},
     prepare : BOOLEAN,
     change : BOOLEAN]

Init ==
    /\ formatTypes = <<>>
    /\ filters = <<>>
    /\ heap = <<>>
    /\ cache = <<>>
    /\ calls = {}
    /\ succeeded = <<>>
    /\ last = NoCall

Next ==
    \/ /\ last = NoCall
       /\ \E name \in NameInputs, settings \in SettingsInputs :
              /\ Deviations(name, settings) <= MaxDeviations
              /\ registerFormatType(name, settings)
    \/ Continue

Spec == Init /\ [][Next]_vars

RenderNext ==
    \/ /\ last = NoCall
       /\ \E name \in RenderNames, settings \in RenderSettings :
              registerFormatType(name, settings)
    \/ /\ last = NoCall
       /\ \E P \in [1..Len(filters) -> Funcs], C \in [1..Len(filters) -> Funcs] :
              Render(P, C)
    \/ Continue

RenderSpec == Init /\ [][RenderNext]_vars

----------------------------------------------------------------------------
(* Properties.                                                             *)

Registered == {formatTypes[k] : k \in DOMAIN formatTypes}

\* the call that has just returned is a registerFormatType call
JustRegistered == last.op = "register"

\* ... and it returned the descriptor
JustAccepted == JustRegistered /\ last.ret # Undefined /\ last.ret # Threw

\* what the registry holds under a name given as the name argument
HeldUnder(reg, name) ==
    IF name.t = "string" /\ name.s \in DOMAIN reg THEN reg[name.s] ELSE NoFormat

\* C1: no two registered descriptors have the same name, no two registered
\* bare-element descriptors (className null) have the same tagName, and no
\* two registered descriptors have the same non-null className.
C1_RegistryUnique ==
    /\ \A k \in DOMAIN formatTypes : formatTypes[k].name = Str(k)
    /\ \A k1, k2 \in DOMAIN formatTypes :
          k1 # k2 =>
             /\ formatTypes[k1].name # formatTypes[k2].name
             /\ ~(/\ formatTypes[k1].className = Null
                  /\ formatTypes[k2].className = Null
                  /\ formatTypes[k1].tagName = formatTypes[k2].tagName)
             /\ ~(/\ formatTypes[k1].className # Null
                  /\ formatTypes[k1].className = formatTypes[k2].className)
    /\ Len(succeeded) = Cardinality(DOMAIN formatTypes)

\* a second bare-element descriptor, for another tag name, has just been
\* registered beside the first
C1_Witness ==
    /\ JustAccepted
    /\ last.ret.className = Null
    /\ Cardinality({d \in Registered : d.className = Null}) = 2

C3_FirstRegistrationWins ==
    /\ \A i, j \in 1..Len(succeeded) : succeeded[i].name = succeeded[j].name => i = j
    /\ \A i \in 1..Len(succeeded) : HeldUnder(formatTypes, succeeded[i].name) = succeeded[i].d

\* The eleven rules, as the claim states them for the name argument and the
\* settings record.
RuleName(name, reg) ==
    /\ name.t = "string"
    /\ NameRegExp(name.s)
    /\ name.s \notin DOMAIN reg

RuleTagName(settings) == settings.tagName.t = "string" /\ settings.tagName.s # <<>>

RuleClassName(settings) ==
    \/ settings.className = Null
    \/ /\ settings.className.t = "string"
       /\ settings.className.s # <<>>
       /\ ClassRegExp(settings.className.s)

RuleNoConflict(settings, reg) ==
    IF settings.className = Null
    THEN ~\E k \in DOMAIN reg : reg[k].className = Null /\ reg[k].tagName = settings.tagName
    ELSE ~\E k \in DOMAIN reg : reg[k].className = settings.className

RuleTitle(settings) == settings.title.t = "string" /\ settings.title.s # <<>>

RuleKeywords(settings) ==
    \/ settings.keywords = Absent
    \/ ~(settings.keywords.t = "array" /\ settings.keywords.n > 3)

AllRules(name, settings, reg) ==
    /\ RuleName(name, reg)
    /\ RuleTagName(settings)
    /\ RuleClassName(settings)
    /\ RuleNoConflict(settings, reg)
    /\ RuleTitle(settings)
    /\ RuleKeywords(settings)

\* C4: registerFormatType returns a descriptor, and inserts it, if and only
\* if the name argument and the settings satisfy all eleven rules against
\* the registry the call finds.
C4_AcceptanceIsTheRuleSet ==
    [][last'.op = "register" =>
          /\ (last'.ret # Undefined /\ last'.ret # Threw)
                 <=> AllRules(last'.name, last'.settings, formatTypes)
          /\ (formatTypes' # formatTypes)
                 <=> AllRules(last'.name, last'.settings, formatTypes)]_vars

\* C5: the descriptor a successful call returns is the settings with the
\* name field set to the name argument, and it is what the registry holds
\* under that name.
C5_ReturnsSettingsMergedWithName ==
    JustAccepted =>
        /\ last.ret = [last.settings EXCEPT !.name = last.name]
        /\ HeldUnder(formatTypes, last.name) = last.ret

\* C6: a registerFormatType call never ends by a throw.
C6_NeverThrows == JustRegistered => last.ret # Threw

\* The rules in the order of the validation sequence, read on the descriptor
\* under validation; the number of a rule is its place in that order.
Violates(r, d, reg) ==
    CASE r = 1 -> d.name.t # "string"
      [] r = 2 -> d.name.t = "string" /\ ~NameRegExp(d.name.s)
      [] r = 3 -> d.name.t = "string" /\ d.name.s \in DOMAIN reg
      [] r = 4 -> ~RuleTagName(d)
      [] r = 5 -> ~(d.className = Null
                      \/ (d.className.t = "string" /\ d.className.s # <<>>))
      [] r = 6 -> d.className.t = "string" /\ ~ClassRegExp(d.className.s)
      [] r = 7 -> ~RuleNoConflict(d, reg)
      [] r = 8 -> d.title = Absent \/ d.title = Str(<<>>)
      [] r = 9 -> d.keywords.t = "array" /\ d.keywords.n > 3
      [] r = 10 -> d.title.t # "string"

DiagnosticOf(r, d) ==
    CASE r = 1 -> "names-must-be-strings"
      [] r = 2 -> "name-pattern"
      [] r = 3 -> "already-registered"
      [] r = 4 -> "tag-name"
      [] r = 5 -> "class-name-type"
      [] r = 6 -> "class-name-pattern"
      [] r = 7 -> IF d.className = Null THEN "bare-tag-handled" ELSE "class-name-handled"
      [] r = 8 -> "must-have-title"
      [] r = 9 -> "max-keywords"
      [] r = 10 -> "titles-must-be-strings"

C10_FilterKeyIsRegisteredName ==
    [][last'.op = "register" =>
          /\ (filters' # filters) <=>
                 (last'.ret # Undefined /\ last'.ret # Threw /\ last'.settings.prepare)
          /\ (filters' # filters) =>
                 /\ Len(filters') = Len(filters) + 1
                 /\ SubSeq(filters', 1, Len(filters)) = filters
                 /\ HeldUnder(formatTypes', filters'[Len(filters')].key) = last'.ret]_vars

\* a rendering pass has just handed its props to the original component
JustRendered == last.op = "render"

\* the successfully registered format types that supply the
\* tree-preparation hook, in registration order
WithPrepareHook == SelectSeq(succeeded, LAMBDA e : e.d.prepare)

\* the functions the change-handler hooks returned in the pass, in
\* registration order of their format types
ChangePicks == SelectSeq(last.picks, LAMBDA k : k.c # NoFn)

Reverse(q) == [j \in 1..Len(q) |-> q[Len(q) + 1 - j]]

\* the wrappers are those of the registered format types with the hook, one
\* each, installed in registration order
OneWrapperPerFormatType ==
    /\ Len(filters) = Len(WithPrepareHook)
    /\ \A i \in 1..Len(filters) :
          /\ filters[i].fmt = WithPrepareHook[i].d
          /\ filters[i].fmt \in Registered
    /\ Len(last.picks) = Len(filters)
    /\ \A i \in 1..Len(filters) : (last.picks[i].c # NoFn) <=> filters[i].fmt.change

\* C8 (as the claim states it): the original component receives in
\* prepareEditableTree one function per registered format type with the
\* tree-preparation hook, in registration order, and likewise in
\* onChangeEditableValue for those with the change-handler hook.
C8_StackInRegistrationOrder ==
    JustRendered =>
        /\ OneWrapperPerFormatType
        /\ Contents(heap, last.prepareEditableTree) = [i \in 1..Len(filters) |-> last.picks[i].p]
        /\ Contents(heap, last.onChangeEditableValue) = [j \in 1..Len(ChangePicks) |-> ChangePicks[j].c]

\* C8 (amended): the original component receives one function per such
\* format type in REVERSE registration order: the function of the format
\* type registered last comes first.
C8_StackInReverseRegistrationOrder ==
    JustRendered =>
        /\ OneWrapperPerFormatType
        /\ Contents(heap, last.prepareEditableTree)
              = Reverse([i \in 1..Len(filters) |-> last.picks[i].p])
        /\ Contents(heap, last.onChangeEditableValue)
              = Reverse([j \in 1..Len(ChangePicks) |-> ChangePicks[j].c])

\* two format types with both hooks were rendered and their hooks returned
\* different functions
C8_Witness ==
    /\ JustRendered
    /\ Len(filters) = 2
    /\ last.picks[1].p # last.picks[2].p
    /\ Len(ChangePicks) = 2
    /\ ChangePicks[1].c # ChangePicks[2].c

\* what every call of a stack builder returned: previousStack followed by
\* newFunction, previousStack itself left as it was
StackContents ==
    \A c \in calls :
        /\ c.res \in 1..Len(heap)
        /\ c.prev \in 0..Len(heap)
        /\ c.prev # c.res
        /\ Contents(heap, c.prev) = c.before
        /\ heap[c.res] = c.before \o <<c.fn>>

\* C9 (as the claim states it): the cache is process-wide: any two calls
\* with the identical (previousStack, newFunction) pair return the identical
\* array, calls with differing arguments return distinct arrays, and the
\* array is previousStack followed by newFunction.
C9_ProcessWideMemo ==
    /\ \A c1, c2 \in calls :
          (c1.prev = c2.prev /\ c1.fn = c2.fn) <=> c1.res = c2.res
    /\ StackContents

\* C9 (amended): every successful registration creates a builder with a
\* cache of its own: two calls of the SAME builder with the identical pair
\* return the identical array; calls with differing arguments, or of
\* different builders, return distinct arrays.
C9_PerRegistrationMemo ==
    /\ \A c1, c2 \in calls :
          (c1.b = c2.b /\ c1.prev = c2.prev /\ c1.fn = c2.fn) <=> c1.res = c2.res
    /\ \A i \in 1..Len(cache) : \A e \in cache[i] :
          \E c \in calls : c.b = i /\ c.prev = e.prev /\ c.fn = e.fn /\ c.res = e.res
    /\ StackContents

\* a pass was served from the caches alone, by two builders that had been
\* called with the same pair
C9_Witness ==
    /\ JustRendered
    /\ Len(filters) = 2
    /\ last.allocated = 0
    /\ \E c1, c2 \in calls : c1.b # c2.b /\ c1.prev = c2.prev /\ c1.fn = c2.fn

====
